---- MODULE Spec2Model ----
(***************************************************************************)
(* Model of aioyoyo/cmdhandler.py: the command resolver (CommandHandler.get),*)
(* the executor (CommandHandler.run) and the bot message router              *)
(* (BotCommandHandler.tryBotCommand), over a small tree of handler objects.  *)
(*                                                                           *)
(* Text is a sequence of one-character strings; a Python object is a value   *)
(* record [kind, id, text] whose attributes are looked up in `members`.      *)
(***************************************************************************)
EXTENDS Integers, Sequences, FiniteSets, TLC

VARIABLES
    members,    \* attribute table of every object: id -> (name -> value)
    pc,         \* "idle" | "body" (a command body is suspended) | "done"
    op,         \* the call in progress: which entry point, receiver and inputs
    result,     \* how the call ended: returned value or raised exception
    runs,       \* run calls made by the call: receiver, command, arguments
    runResult,  \* how the run call ended, Pending until then
    invoked,    \* callables called by run, with their arguments
    finished,   \* number of invoked bodies that have run to their end
    unhandled,  \* __unhandled__ invocations made by the call
    sent,       \* messages handed to the transport by the call
    effects,    \* side effects that the invoked command bodies have made
    created,    \* send coroutines created by the call and never awaited
    listing,    \* the names that getVisibleCommands returned to the call
    passed      \* the caller's path list, as it is after the call

vars == <<members, pc, op, result, runs, runResult, invoked, finished, unhandled, sent,
          effects, created, listing, passed>>

\* ------------------------------------------------------------------ bounds
MaxPathLen == 3     \* segments in a command path
MaxArgs == 2        \* positional arguments of a direct run call

\* ------------------------------------------------------------------- text
Dot == "."
Space == " "
Underscore == "_"

StartsWith(s, t) == Len(s) >= Len(t) /\ SubSeq(s, 1, Len(t)) = t

\* s[n:]
DropFirst(s, n) == IF n >= Len(s) THEN <<>> ELSE SubSeq(s, n + 1, Len(s))

\* s.find(c) + 1: the first position of c in s, 0 when there is none
RECURSIVE FindFrom(_, _, _)
FindFrom(s, c, i) ==
    IF i > Len(s) THEN 0 ELSE IF s[i] = c THEN i ELSE FindFrom(s, c, i + 1)
Find(s, c) == FindFrom(s, c, 1)

\* str.split(c): always at least one piece
RECURSIVE Split(_, _)
Split(s, c) ==
    LET i == Find(s, c)
    IN IF i = 0 THEN <<s>>
       ELSE <<SubSeq(s, 1, i - 1)>> \o Split(DropFirst(s, i), c)

\* str.split(c, 1)
SplitOnce(s, c) ==
    LET i == Find(s, c)
    IN IF i = 0 THEN <<s>> ELSE <<SubSeq(s, 1, i - 1), DropFirst(s, i)>>

\* str.strip() for the blank character
RECURSIVE LStrip(_)
LStrip(s) == IF s # <<>> /\ Head(s) = Space THEN LStrip(Tail(s)) ELSE s
RECURSIVE RStrip(_)
RStrip(s) == IF s # <<>> /\ s[Len(s)] = Space THEN RStrip(SubSeq(s, 1, Len(s) - 1)) ELSE s
Strip(s) == RStrip(LStrip(s))

\* c.join(parts)
RECURSIVE Join(_, _)
Join(parts, c) ==
    IF parts = <<>> THEN <<>>
    ELSE IF Len(parts) = 1 THEN parts[1]
    ELSE parts[1] \o <<c>> \o Join(Tail(parts), c)

\* ----------------------------------------------------------------- values
Val(kind, id, text) == [kind |-> kind, id |-> id, text |-> text]
Handler(id) == Val("handler", id, <<>>)     \* a CommandHandler instance
Method(id) == Val("method", id, <<>>)       \* a bound coroutine method
Object(id) == Val("object", id, <<>>)       \* any other object (the client)
Data(id, text) == Val("data", id, text)     \* a str attribute
Text(text) == Val("text", "", text)         \* a str argument
NoneVal == Val("none", "", <<>>)
TrueVal == Val("bool", "True", <<>>)
Unbound == Val("unbound", "", <<>>)         \* a local never assigned

\* attribute names
PROTECTED == <<"p","r","o","t","e","c","t","e","d">>
n_help == <<"h","e","l","p">>
n_admin == <<"a","d","m","i","n">>
n_kick == <<"k","i","c","k">>
n_ban == <<"b","a","n">>
n_ops == <<"o","p","s">>
n_get == <<"g","e","t">>
n_client == <<"c","l","i","e","n","t">>
n_nick == <<"n","i","c","k">>
n_send == <<"s","e","n","d">>
n_ping == <<"p","i","n","g">>
n_privmsg == <<"p","r","i","v","m","s","g">>
n_command_handler == <<"c","m","d","h">>
n_hidden == <<"_","x">>
n_absent == <<"z">>

Nick == <<"b","o","t">>

NoAttrs == [n \in {} |-> NoneVal]
Flag == PROTECTED :> TrueVal                 \* what @protected attaches

\* The object graph: a command vocabulary `root` with a sub-handler `admin`
\* holding a sub-handler `ops`, and a sub-handler `vault` (root.ban) that
\* carries the protection flag; the protocol handler `router`; the client.
Tree ==
    [ root |-> (n_help :> Method("root.help") @@ n_kick :> Method("root.kick")
                @@ n_admin :> Handler("admin") @@ n_get :> Method("root.get")
                @@ n_ban :> Handler("vault")
                @@ n_hidden :> Method("root._x") @@ n_client :> Object("client")),
      admin |-> (n_kick :> Method("admin.kick") @@ n_ban :> Method("admin.ban")
                 @@ n_ops :> Handler("ops") @@ n_get :> Method("admin.get")
                 @@ n_client :> Object("client")),
      ops |-> (n_kick :> Method("ops.kick") @@ n_get :> Method("ops.get")
               @@ n_client :> Object("client")),
      vault |-> (Flag @@ n_kick :> Method("vault.kick") @@ n_client :> Object("client")),
      router |-> (n_ping :> Method("router.ping") @@ n_privmsg :> Method("router.privmsg")
                  @@ n_get :> Method("router.get")
                  @@ n_command_handler :> Handler("root") @@ n_client :> Object("client")),
      client |-> (n_nick :> Data("client.nick", Nick) @@ n_send :> Method("client.send")) ]

\* attributes of the non-handler values: a flagged method carries `protected`
ObjAttrs(id) ==
    IF id \in {"root.get", "admin.get", "ops.get", "router.get", "admin.ban"} THEN Flag
    ELSE NoAttrs

Ids == {"root", "admin", "ops", "vault", "vault.kick", "router", "client", "root.help", "root.kick", "root.get",
        "root._x", "admin.kick", "admin.ban", "admin.get", "ops.kick", "ops.get",
        "router.ping", "router.privmsg", "router.get", "client.send", "client.nick"}

InitMembers == [id \in Ids |-> IF id \in DOMAIN Tree THEN Tree[id] ELSE ObjAttrs(id)]

\* hasattr(v, name) / getattr(v, name)
HasAttr(ms, v, name) == v.id \in DOMAIN ms /\ name \in DOMAIN ms[v.id]
GetAttr(ms, v, name) == ms[v.id][name]

\* ------------------------------------------------------------ command path
\* A path as the caller passes it: a str, a bytes, or a list of segments, each
\* segment a str (b = FALSE) or a bytes (b = TRUE).
Seg(b, s) == [b |-> b, s |-> s]
StrPath(text) == [form |-> "str", text |-> text, parts |-> <<>>]
BytesPath(text) == [form |-> "bytes", text |-> text, parts |-> <<>>]
ListPath(parts) == [form |-> "list", text |-> <<>>, parts |-> parts]

\* lines 54-57: split a bytes or str path on "."; a list is used as it is
Normalize(in) ==
    LET pieces == Split(in.text, Dot)
    IN IF in.form = "bytes" THEN [i \in 1..Len(pieces) |-> Seg(TRUE, pieces[i])]
       ELSE IF in.form = "str" THEN [i \in 1..Len(pieces) |-> Seg(FALSE, pieces[i])]
       ELSE in.parts

DecodeNothing(seg) == seg
\* lines 63-64: cmd.decode() for a bytes segment
Decode(seg) == IF seg.b THEN Seg(FALSE, seg.s) ELSE seg

\* ---------------------------------------------------------------- outcomes
Return(v) == [kind |-> "return", val |-> v, exc |-> "", cmd |-> ListPath(<<>>)]
Raise(exc, cmd) == [kind |-> "raise", val |-> NoneVal, exc |-> exc, cmd |-> cmd]
Pending == [kind |-> "pending", val |-> NoneVal, exc |-> "", cmd |-> ListPath(<<>>)]

\* ------------------------------------------------------- CommandHandler.get
IsUnderscoreDunderOnly(cmd) == StartsWith(cmd.s, <<Underscore, Underscore>>)
\* line 65
IsUnderscore(cmd) == StartsWith(cmd.s, <<Underscore>>)
IsProtectedMethodsOnly(ms, f) == f.kind = "method" /\ HasAttr(ms, f, PROTECTED)
\* line 73
IsProtected(ms, f) == HasAttr(ms, f, PROTECTED)
\* line 76
Delegates(f, rest) == f.kind = "handler" /\ rest # <<>>
DelegatedPathWhole(in_command_parts, command_parts) == ListPath(in_command_parts)
\* line 77: what the sub-handler's get is given
DelegatedPath(in_command_parts, command_parts) == ListPath(command_parts)
\* lines 66, 71, 74: what the raised error carries
ErrorPath(in_command_parts) == ListPath(in_command_parts)
\* line 80: `return f`, f unassigned when the loop body never ran
Returned(p, f) ==
    IF f = Unbound THEN Raise("UnboundLocalError", ListPath(<<>>)) ELSE Return(f)

\* line 65: cmd.startswith('_') raises TypeError for a cmd that is still bytes
NotText == Raise("TypeError", ListPath(<<>>))

RECURSIVE Get(_, _, _)
RECURSIVE Walk(_, _, _, _, _)
\* lines 60-80: the loop, with cursor p, last member f, the parts still to read
Walk(ms, p, f, command_parts, in_command_parts) ==
    IF command_parts = <<>> THEN Returned(p, f)
    ELSE LET cmd == Decode(Head(command_parts))
             rest == Tail(command_parts)
         IN IF cmd.b
                THEN NotText
            ELSE IF IsUnderscore(cmd)
                THEN Raise("ProtectedCommandError", ErrorPath(in_command_parts))
            ELSE IF ~HasAttr(ms, p, cmd.s)
                THEN Raise("NoSuchCommandError", ErrorPath(in_command_parts))
            ELSE LET g == GetAttr(ms, p, cmd.s)
                 IN IF IsProtected(ms, g)
                        THEN Raise("ProtectedCommandError", ErrorPath(in_command_parts))
                    ELSE IF Delegates(g, rest)
                        THEN Get(ms, g, DelegatedPath(in_command_parts, rest))
                    ELSE Walk(ms, g, g, rest, in_command_parts)

Get(ms, self, in) ==
    LET in_command_parts == Normalize(in)
    IN Walk(ms, self, Unbound, in_command_parts, in_command_parts)

\* line 62: the number of pop(0) calls that the loop makes on its list before
\* it returns, raises or hands the rest to a sub-handler
RECURSIVE Pops(_, _, _)
Pops(ms, p, command_parts) ==
    IF command_parts = <<>> THEN 0
    ELSE LET cmd == Decode(Head(command_parts))
             rest == Tail(command_parts)
             g == GetAttr(ms, p, cmd.s)
         IN IF cmd.b \/ IsUnderscore(cmd) \/ ~HasAttr(ms, p, cmd.s) THEN 1
            ELSE IF IsProtected(ms, g) \/ Delegates(g, rest) THEN 1
            ELSE 1 + Pops(ms, g, rest)

LoopListAliased(in_command_parts) == [alias |-> TRUE, items |-> in_command_parts]
\* line 58: `command_parts = in_command_parts[:]`, a new list with the same items
LoopList(in_command_parts) == [alias |-> FALSE, items |-> in_command_parts]

\* the caller's list once get is over: the pops reach it only through an alias
CallerListAfter(in_command_parts, loop, pops) ==
    IF loop.alias THEN DropFirst(in_command_parts, pops) ELSE in_command_parts

\* lines 54-62: what get leaves in a list that the caller passed; a str or
\* bytes path is no list
PassedAfter(ms, self, in) ==
    IF in.form = "list"
        THEN CallerListAfter(in.parts, LoopList(in.parts), Pops(ms, self, in.parts))
    ELSE <<>>

\* ------------------------------------------------------------------ inputs
Segs == {n_admin, n_kick, n_ops, n_ban, n_client, n_hidden, n_absent}

RECURSIVE SeqsUpTo(_, _)
SeqsUpTo(S, n) ==
    IF n = 0 THEN {<<>>}
    ELSE SeqsUpTo(S, n - 1) \cup
         {Append(q, x) : q \in {r \in SeqsUpTo(S, n - 1) : Len(r) = n - 1}, x \in S}

\* every path over Segs, and a few over the other names
NamePaths == SeqsUpTo(Segs, MaxPathLen) \cup {<<n_help>>, <<n_client, n_nick>>, <<n_get>>}

PathInputs ==
    {StrPath(Join(q, Dot)) : q \in NamePaths}
    \cup {BytesPath(Join(q, Dot)) : q \in NamePaths}
    \cup {ListPath([i \in 1..Len(q) |-> Seg(FALSE, q[i])]) : q \in NamePaths}

\* pre-split lists in which any subset of the segments are bytes
MixSegs == {n_admin, n_kick, n_ops, n_hidden, n_absent}
MixedPaths ==
    {ListPath([i \in 1..Len(q) |-> Seg(i \in B, q[i])]) :
        q \in SeqsUpTo(MixSegs, MaxPathLen), B \in SUBSET (1..MaxPathLen)}

Receivers == {Handler("root"), Handler("admin"), Handler("router")}
Executors == {Handler("root"), Handler("admin")}

\* distinct positional arguments a1, a2, ... of a direct run call
ArgN(k) == Text([i \in 1..k |-> "a"])
ArgLists == {[i \in 1..n |-> ArgN(i)] : n \in {0, MaxArgs}}

\* inbound PRIVMSG events
p_user == <<"a","l","!","u","@","h">>
p_server == <<"s","r","v">>
Prefixes == {p_user, p_server}
d_chan == <<"#","c">>
Dests == {Nick, d_chan}
Addressings == {<<>>, Nick, Nick \o <<":", Space>>, Nick \o <<Space, Space>>, <<"y", ":", Space>>}
Remainders == {<<>>, <<Space, "r">>, <<Space, Space, "r", Space, "s", Space>>}
MsgNamePaths == SeqsUpTo(Segs, MaxPathLen - 1) \cup {<<n_help>>}
Msgs == {a \o Join(q, Dot) \o r : a \in Addressings, q \in MsgNamePaths, r \in Remainders}

FalseVal == Val("bool", "False", <<>>)
\* the list object that getVisibleCommands returns; its names are in `listing`
ListVal == Val("list", "names", <<>>)

\* server tokens of a PING event
Tokens == {<<"s">>, <<"i", "r", "c">>}

\* the handler that has getVisibleCommands, and the nodes it is asked about
Listers == {Handler("root")}
Nodes == {Handler("root"), Handler("admin"), Handler("ops"), Handler("vault")}

NoCall == [name |-> "none", self |-> NoneVal, path |-> ListPath(<<>>), args |-> <<>>,
           prefix |-> <<>>, dest |-> <<>>, msg |-> <<>>]

\* ------------------------------------------------------- command bodies
\* f(...) raises TypeError unless f is callable and takes that many arguments:
\* help(self, sender, dest, arg=None); the other commands take *args
Callable(f) == f.kind = "method"
AcceptsArgs(f, args) == IF f.id = "root.help" THEN Len(args) \in {2, 3} ELSE TRUE

\* helpers.msg(client, dest, text): one line handed to the transport
Line(by, dest, what, cmd, names) ==
    [by |-> by, dest |-> dest, what |-> what, cmd |-> cmd, names |-> names]

\* ---------------------------------------------- DefaultCommandHandler.ping
\* client.send(*args) is a coroutine function (the example client awaits it):
\* the call creates the coroutine, and the line is emitted when it is awaited
ClientSend(line, awaited) ==
    IF awaited THEN [sent |-> <<line>>, created |-> <<>>]
    ELSE [sent |-> <<>>, created |-> <<line>>]

PongLine(server) == Line("ping", server, "PONG", ListPath(<<>>), {})
\* line 118: `self.client.send('PONG', server)`, a call that is not awaited
Ping(prefix, server) == ClientSend(PongLine(server), FALSE)

\* -------------------------------- DefaultBotCommandHandler.getVisibleCommands
\* line 128
IsCommand(v) == v.kind \in {"handler", "method"}
HidesNothing(ms, v) == FALSE
\* line 132: hasattr(getattr(obj, m), 'protected')
HidesFlagged(ms, v) == HasAttr(ms, v, PROTECTED)
\* lines 129-132: `getattr(obj, m)` reads obj, not `obj or self`
GetVisibleCommands(ms, self, obj) ==
    LET target == IF obj = NoneVal THEN self ELSE obj
        all == IF target.id \in DOMAIN ms THEN DOMAIN ms[target.id] ELSE {}
        listed == {m \in all : IsCommand(ms[target.id][m])}
        named == {m \in listed : ~StartsWith(m, <<Underscore>>)}
    IN IF named # {} /\ obj = NoneVal
           THEN [kind |-> "raise", exc |-> "AttributeError", names |-> {}]
       ELSE [kind |-> "return", exc |-> "",
             names |-> {m \in named : ~HidesFlagged(ms, ms[target.id][m])}]

\* ------------------------------------------- DefaultBotCommandHandler.help
\* lines 134-156, called as help(sender, dest[, arg])
Help(ms, self, a) ==
    LET dest == a[2].text
        noArg == Len(a) < 3 \/ a[3] = NoneVal \/ (a[3].kind = "text" /\ a[3].text = <<>>)
        vis == GetVisibleCommands(ms, self, NoneVal)
        r == Get(ms, self, StrPath(a[3].text))
        sub == GetVisibleCommands(ms, self, r.val)
    IN IF noArg
           THEN IF vis.kind = "raise" THEN [outcome |-> "raise", sent |-> <<>>, effects |-> 0]
                ELSE [outcome |-> "ok", effects |-> 0,
                      sent |-> <<Line("help", dest, "commands", ListPath(<<>>), vis.names)>>]
       ELSE IF r.kind = "raise"
           THEN [outcome |-> "ok", effects |-> 0,
                 sent |-> <<Line("help", dest, r.exc, r.cmd, {})>>]
       ELSE IF r.val.kind = "method"
           THEN [outcome |-> "ok", effects |-> 0,
                 sent |-> <<Line("help", dest, "doc", StrPath(a[3].text), {})>>]
       ELSE IF sub.kind = "raise" THEN [outcome |-> "raise", sent |-> <<>>, effects |-> 0]
       ELSE [outcome |-> "ok", effects |-> 0,
             sent |-> <<Line("help", dest, "doc", StrPath(a[3].text), sub.names)>>]

\* How an invoked body may end. help does what its code says; any other
\* command is user code: it makes its side effect and completes, or raises an
\* Exception before or after having made it.
BodyEndings(ms, call) ==
    IF call.f.id = "root.help" THEN {Help(ms, Handler("root"), call.args)}
    ELSE {[outcome |-> "ok", sent |-> <<>>, effects |-> 1],
          [outcome |-> "raise", sent |-> <<>>, effects |-> 0],
          [outcome |-> "raise", sent |-> <<>>, effects |-> 1]}

\* ------------------------------------------------------- CommandHandler.run
RunRecoversNothing(exc) == FALSE
\* line 90: `except NoSuchCommandError`
RunRecovers(exc) == exc = "NoSuchCommandError"
CallArgsClientLast(client, args) == args \o <<client>>
\* line 97: f(self.client, *args)
CallArgs(client, args) == <<client>> \o args
UnhandledNoArgs(command, args) == [cmd |-> command, args |-> <<>>]
\* line 91: self.__unhandled__(command, *args)
Unhandled(command, args) == [cmd |-> command, args |-> args]
\* line 101: raise CommandError(command)
Wrapped(command) == Raise("CommandError", command)
\* lines 89-92: a resolution error that is not recovered leaves run as it is
Escapes(e) == e

RunCall(self, command, args) == [self |-> self, command |-> command, args |-> args]
Invocation(f, args, ran) == [f |-> f, args |-> args, ran |-> ran]

\* lines 88-97, up to the point where the awaited body is running
RunStart(ms, self, command, args) ==
    LET r == Get(ms, self, command)
        a == CallArgs(GetAttr(ms, self, n_client), args)
    IN IF r.kind = "raise" /\ RunRecovers(r.exc)
           THEN [pc |-> "done", result |-> Return(NoneVal), invoked |-> <<>>,
                 unhandled |-> <<Unhandled(command, args)>>]
       ELSE IF r.kind = "raise"
           THEN [pc |-> "done", result |-> Escapes(r), invoked |-> <<>>,
                 unhandled |-> <<>>]
       ELSE IF ~Callable(r.val)
           THEN [pc |-> "done", result |-> Wrapped(command), invoked |-> <<>>,
                 unhandled |-> <<>>]
       ELSE IF ~AcceptsArgs(r.val, a)
           THEN [pc |-> "done", result |-> Wrapped(command),
                 invoked |-> <<Invocation(r.val, a, FALSE)>>, unhandled |-> <<>>]
       ELSE [pc |-> "body", result |-> Pending,
             invoked |-> <<Invocation(r.val, a, TRUE)>>, unhandled |-> <<>>]

\* lines 97-101, once the awaited body has ended
RunEnd(command, outcome) == IF outcome = "ok" THEN Return(NoneVal) ELSE Wrapped(command)

\* ------------------------------------------ BotCommandHandler.tryBotCommand
\* parse_nick(prefix)[0]: the part of the prefix before "!"
ParseNick(prefix) == SplitOnce(prefix, "!")[1]

\* `except CommandError`: NoSuchCommandError and ProtectedCommandError are
\* kinds of CommandError
IsCommandError(exc) == exc \in {"CommandError", "NoSuchCommandError", "ProtectedCommandError"}

\* line 195: helpers.msg(self.client, dest, str(e))
ErrorReply(dest, e) == Line("router", dest, e.exc, e.cmd, {})

RouteNoReject(nick, prefix, dest, msg) ==
    IF dest = nick THEN [match |-> TRUE, dest |-> ParseNick(prefix), msg |-> msg]
    ELSE [match |-> TRUE, dest |-> dest, msg |-> DropFirst(msg, Len(nick) + 1)]
RouteStripFirst(nick, prefix, dest, msg) ==
    IF StartsWith(msg, nick)
        THEN [match |-> TRUE, dest |-> IF dest = nick THEN ParseNick(prefix) ELSE dest,
              msg |-> DropFirst(msg, Len(nick) + 1)]
    ELSE IF dest = nick THEN [match |-> TRUE, dest |-> ParseNick(prefix), msg |-> msg]
    ELSE [match |-> FALSE, dest |-> dest, msg |-> msg]
\* lines 179-184
Route(nick, prefix, dest, msg) ==
    IF dest = nick THEN [match |-> TRUE, dest |-> ParseNick(prefix), msg |-> msg]
    ELSE IF StartsWith(msg, nick)
        THEN [match |-> TRUE, dest |-> dest, msg |-> DropFirst(msg, Len(nick) + 1)]
    ELSE [match |-> FALSE, dest |-> dest, msg |-> msg]

\* lines 186-190
CommandLine(msg) ==
    LET parts == SplitOnce(Strip(msg), Space)
    IN [command |-> parts[1], arg |-> Tail(parts)]

\* line 193: the arguments handed to run
BotArgs(prefix, dest, arg) == <<Text(prefix), Text(dest)>> \o [i \in 1..Len(arg) |-> Text(arg[i])]

ClientNick(ms, self) == GetAttr(ms, GetAttr(ms, self, n_client), n_nick).text

\* lines 179-193: what the message asks the executor for
Routed(ms, self, prefix, dest, msg) ==
    LET rt == Route(ClientNick(ms, self), prefix, dest, msg)
        cl == CommandLine(rt.msg)
    IN [match |-> rt.match, dest |-> rt.dest, command |-> StrPath(cl.command),
        args |-> BotArgs(prefix, rt.dest, cl.arg)]

TryEndReraises(dest, r) ==
    IF r.kind = "raise" /\ IsCommandError(r.exc)
        THEN [result |-> r, sent |-> <<ErrorReply(dest, r)>>]
    ELSE IF r.kind = "raise" THEN [result |-> r, sent |-> <<>>]
    ELSE [result |-> Return(TrueVal), sent |-> <<>>]
\* lines 192-196: after run has returned or raised
TryEnd(dest, r) ==
    IF r.kind = "raise" /\ IsCommandError(r.exc)
        THEN [result |-> Return(TrueVal), sent |-> <<ErrorReply(dest, r)>>]
    ELSE IF r.kind = "raise" THEN [result |-> r, sent |-> <<>>]
    ELSE [result |-> Return(TrueVal), sent |-> <<>>]

\* ------------------------------------------------ BotCommandHandler.privmsg
PrivmsgReturnsAtOnce(inner) == TRUE
\* line 169: `await self.tryBotCommand(...)`: privmsg has returned only when
\* tryBotCommand has
PrivmsgReturns(inner) == inner = "done"
\* lines 166-169: what tryBotCommand returned is dropped, what it raised is not
PrivmsgResult(r) == IF r.kind = "return" THEN Return(NoneVal) ELSE r

\* ------------------------------------------------------------------ actions
Init ==
    /\ members = InitMembers
    /\ pc = "idle"
    /\ op = NoCall
    /\ result = Pending
    /\ runs = <<>>
    /\ runResult = Pending
    /\ invoked = <<>>
    /\ finished = 0
    /\ unhandled = <<>>
    /\ sent = <<>>
    /\ effects = 0
    /\ created = <<>>
    /\ listing = {}
    /\ passed = <<>>

\* a direct call self.get(path)
CallGet ==
    /\ pc = "idle"
    /\ \E self \in Receivers, path \in PathInputs \cup MixedPaths :
        /\ op' = [NoCall EXCEPT !.name = "get", !.self = self, !.path = path]
        /\ result' = Get(members, self, path)
        /\ passed' = PassedAfter(members, self, path)
    /\ pc' = "done"
    /\ UNCHANGED <<members, runs, runResult, invoked, finished, unhandled, sent,
                   effects, created, listing>>

\* a direct call `await self.run(command, *args)`, up to the body's suspension
CallRun ==
    /\ pc = "idle"
    /\ \E self \in Executors, path \in PathInputs, args \in ArgLists :
        LET s == RunStart(members, self, path, args)
        IN /\ op' = [NoCall EXCEPT !.name = "run", !.self = self, !.path = path,
                                   !.args = args]
           /\ runs' = <<RunCall(self, path, args)>>
           /\ runResult' = s.result
           /\ pc' = s.pc
           /\ result' = s.result
           /\ invoked' = s.invoked
           /\ unhandled' = s.unhandled
           /\ passed' = PassedAfter(members, self, path)
    /\ UNCHANGED <<members, finished, sent, effects, created, listing>>

\* the transport delivers a PRIVMSG: `await router.tryBotCommand(prefix, dest, msg)`
CallTryBotCommand ==
    /\ pc = "idle"
    /\ \E prefix \in Prefixes, dest \in Dests, msg \in Msgs :
        LET self == Handler("router")
            rt == Routed(members, self, prefix, dest, msg)
            handler == GetAttr(members, self, n_command_handler)
            s == RunStart(members, handler, rt.command, rt.args)
            e == TryEnd(rt.dest, s.result)
        IN /\ op' = [NoCall EXCEPT !.name = "tryBotCommand", !.self = self,
                                   !.prefix = prefix, !.dest = dest, !.msg = msg]
           /\ IF ~rt.match
                 THEN /\ pc' = "done"
                      /\ result' = Return(FalseVal)
                      /\ UNCHANGED <<runs, runResult, invoked, unhandled, sent>>
              ELSE /\ runs' = <<RunCall(handler, rt.command, rt.args)>>
                   /\ runResult' = s.result
                   /\ invoked' = s.invoked
                   /\ unhandled' = s.unhandled
                   /\ pc' = s.pc
                   /\ result' = IF s.pc = "body" THEN Pending ELSE e.result
                   /\ sent' = IF s.pc = "body" THEN <<>> ELSE e.sent
    /\ UNCHANGED <<members, finished, effects, created, listing, passed>>

\* the transport delivers a PRIVMSG: `await router.privmsg(prefix, dest, msg)`
CallPrivmsg ==
    /\ pc = "idle"
    /\ \E prefix \in Prefixes, dest \in Dests, msg \in Msgs :
        LET self == Handler("router")
            rt == Routed(members, self, prefix, dest, msg)
            handler == GetAttr(members, self, n_command_handler)
            s == RunStart(members, handler, rt.command, rt.args)
            e == TryEnd(rt.dest, s.result)
        IN /\ op' = [NoCall EXCEPT !.name = "privmsg", !.self = self,
                                   !.prefix = prefix, !.dest = dest, !.msg = msg]
           /\ IF ~rt.match
                 THEN /\ pc' = "done"
                      /\ result' = PrivmsgResult(Return(FalseVal))
                      /\ UNCHANGED <<runs, runResult, invoked, unhandled, sent>>
              ELSE /\ runs' = <<RunCall(handler, rt.command, rt.args)>>
                   /\ runResult' = s.result
                   /\ invoked' = s.invoked
                   /\ unhandled' = s.unhandled
                   /\ pc' = IF PrivmsgReturns(s.pc) THEN "done" ELSE "body"
                   /\ result' = IF s.pc = "body" THEN Pending ELSE PrivmsgResult(e.result)
                   /\ sent' = IF s.pc = "body" THEN <<>> ELSE e.sent
    /\ UNCHANGED <<members, finished, effects, created, listing, passed>>

\* a direct call self.getVisibleCommands() or self.getVisibleCommands(obj)
CallGetVisibleCommands ==
    /\ pc = "idle"
    /\ \E self \in Listers, args \in {<<>>} \cup {<<n>> : n \in Nodes} :
        LET g == GetVisibleCommands(members, self, IF args = <<>> THEN NoneVal ELSE args[1])
        IN /\ op' = [NoCall EXCEPT !.name = "getVisibleCommands", !.self = self,
                                   !.args = args]
           /\ result' = IF g.kind = "raise" THEN Raise(g.exc, ListPath(<<>>))
                         ELSE Return(ListVal)
           /\ listing' = g.names
    /\ pc' = "done"
    /\ UNCHANGED <<members, runs, runResult, invoked, finished, unhandled, sent,
                   effects, created, passed>>

\* the transport delivers a PING: `await router.ping(prefix, server)`
CallPing ==
    /\ pc = "idle"
    /\ \E prefix \in Prefixes, server \in Tokens :
        LET e == Ping(prefix, server)
        IN /\ op' = [NoCall EXCEPT !.name = "ping", !.self = Handler("router"),
                                   !.prefix = prefix, !.args = <<Text(server)>>]
           /\ sent' = e.sent
           /\ created' = e.created
    /\ result' = Return(NoneVal)
    /\ pc' = "done"
    /\ UNCHANGED <<members, runs, runResult, invoked, finished, unhandled, effects,
                   listing, passed>>

\* the suspended command body runs to its end and the awaiting callers resume
BodyEnds ==
    /\ pc = "body"
    /\ \E b \in BodyEndings(members, invoked[1]) :
        LET r == RunEnd(runs[1].command, b.outcome)
            rt == Routed(members, op.self, op.prefix, op.dest, op.msg)
            e == TryEnd(rt.dest, r)
        IN /\ runResult' = r
           /\ IF op.name = "run"
                 THEN /\ result' = r
                      /\ sent' = b.sent
              ELSE /\ result' = IF op.name = "privmsg" THEN PrivmsgResult(e.result)
                                ELSE e.result
                   /\ sent' = b.sent \o e.sent
           /\ effects' = effects + b.effects
    /\ finished' = finished + 1
    /\ pc' = "done"
    /\ UNCHANGED <<members, op, runs, invoked, unhandled, created, listing, passed>>

\* the caller takes the outcome; the call's frame is gone
Finish ==
    /\ pc = "done"
    /\ pc' = "idle"
    /\ op' = NoCall
    /\ result' = Pending
    /\ runs' = <<>>
    /\ runResult' = Pending
    /\ invoked' = <<>>
    /\ finished' = 0
    /\ unhandled' = <<>>
    /\ sent' = <<>>
    /\ effects' = 0
    /\ created' = <<>>
    /\ listing' = {}
    /\ passed' = <<>>
    /\ UNCHANGED members

Next ==
    \/ CallGet
    \/ CallRun
    \/ CallTryBotCommand
    \/ CallPrivmsg
    \/ CallGetVisibleCommands
    \/ CallPing
    \/ BodyEnds
    \/ Finish

Spec == Init /\ [][Next]_vars

\* ============================================================ properties
\* the decoded segment names of the path of the call in progress
NamesOf(path) == [i \in 1..Len(Normalize(path)) |-> Normalize(path)[i].s]

\* reading names[1], names[2], ... as attributes, one after the other, from v
RECURSIVE ChainExists(_, _, _)
ChainExists(ms, v, names) ==
    names = <<>> \/ (HasAttr(ms, v, Head(names))
                     /\ ChainExists(ms, GetAttr(ms, v, Head(names)), Tail(names)))
RECURSIVE AttrChain(_, _, _)
AttrChain(ms, v, names) ==
    IF names = <<>> THEN v ELSE AttrChain(ms, GetAttr(ms, v, Head(names)), Tail(names))

Prefix(names, i) == SubSeq(names, 1, i)
UnderscoreAt(names, i) == names[i] # <<>> /\ names[i][1] = Underscore
FlaggedAt(ms, v, names, i) == PROTECTED \in DOMAIN ms[AttrChain(ms, v, Prefix(names, i)).id]

\* segments 1..i all exist, none starts with "_", none of their members is flagged
OpenUpTo(ms, v, names, i) ==
    /\ ChainExists(ms, v, Prefix(names, i))
    /\ \A j \in 1..i : ~UnderscoreAt(names, j) /\ ~FlaggedAt(ms, v, names, j)

GetDone == pc = "done" /\ op.name = "get"
GetFailed(exc) == result.kind = "raise" /\ result.exc = exc

\* C1: a path of one or more segments that all exist, none starting with "_"
\* and none of whose members is flagged, resolves to the value of the nested
\* attribute chain read from the receiver, sub-handlers on the way included.
C1_GetReturnsAttrChain ==
    GetDone =>
        LET names == NamesOf(op.path)
        IN (Len(names) >= 1 /\ OpenUpTo(members, op.self, names, Len(names)))
            => result = Return(AttrChain(members, op.self, names))

\* a resolution that crossed two sub-handlers: root.get("admin.ops.kick")
C1_Witness ==
    /\ GetDone
    /\ op.self = Handler("root")
    /\ NamesOf(op.path) = <<n_admin, n_ops, n_kick>>
    /\ result = Return(Method("ops.kick"))

\* C2 as claimed: a path with a "_" segment at any position fails with
\* ProtectedCommand, whatever segments of it exist.
C2_AnyUnderscoreIsProtected ==
    GetDone =>
        LET names == NamesOf(op.path)
        IN (\E i \in 1..Len(names) : UnderscoreAt(names, i))
            => GetFailed("ProtectedCommandError")

\* C2 amended: a path whose first "_" segment is reached, every segment before
\* it existing along the tree, fails with ProtectedCommand whether or not the
\* "_" segment itself exists.
C2_ReachedUnderscoreIsProtected ==
    GetDone =>
        LET names == NamesOf(op.path)
        IN \A i \in 1..Len(names) :
            (/\ UnderscoreAt(names, i)
             /\ \A j \in 1..(i - 1) : ~UnderscoreAt(names, j)
             /\ ChainExists(members, op.self, Prefix(names, i - 1)))
            => GetFailed("ProtectedCommandError")

\* a "_" segment that does not exist, reached through a sub-handler:
\* admin.get("ops._x")
C2_Witness ==
    /\ GetDone
    /\ op.self = Handler("admin")
    /\ NamesOf(op.path) = <<n_ops, n_hidden>>
    /\ ~HasAttr(members, Handler("ops"), n_hidden)
    /\ GetFailed("ProtectedCommandError")

\* C3: a path that reaches a flagged member, at its end or on the way, through
\* unprotected members fails with ProtectedCommand; what get returns is never
\* flagged nor reached through a flagged member.
C3_FlaggedIsProtected ==
    GetDone =>
        LET names == NamesOf(op.path)
        IN /\ \A i \in 1..Len(names) :
                (/\ OpenUpTo(members, op.self, names, i - 1)
                 /\ ~UnderscoreAt(names, i)
                 /\ ChainExists(members, op.self, Prefix(names, i))
                 /\ FlaggedAt(members, op.self, names, i))
                => GetFailed("ProtectedCommandError")
           /\ result.kind = "return" =>
                /\ ~HasAttr(members, result.val, PROTECTED)
                /\ \A i \in 1..Len(names) : ~FlaggedAt(members, op.self, names, i)

\* a flagged sub-handler on the way to an unflagged command: root.get("ban.kick")
C3_Witness ==
    /\ GetDone
    /\ op.self = Handler("root")
    /\ NamesOf(op.path) = <<n_ban, n_kick>>
    /\ ~HasAttr(members, Method("vault.kick"), PROTECTED)
    /\ GetFailed("ProtectedCommandError")

\* C4: a NoSuchCommand or ProtectedCommand error of get carries the whole path
\* that the outermost get was given, also when a sub-handler raised it.
C4_ErrorCarriesWholePath ==
    (GetDone /\ (GetFailed("NoSuchCommandError") \/ GetFailed("ProtectedCommandError")))
        => result.cmd = ListPath(Normalize(op.path))

\* the run call that the entry point made (run itself, or tryBotCommand's)
RunMade == runs # <<>>
RunDone == RunMade /\ runResult.kind # "pending"
Resolution == Get(members, runs[1].self, runs[1].command)
Unresolved(exc) == Resolution.kind = "raise" /\ Resolution.exc = exc
TheClient == GetAttr(members, runs[1].self, n_client)

\* C5: when the command of a run call does not resolve (NoSuchCommand), the
\* fallback handler is called exactly once with the same command and
\* arguments, no command body is called, and run returns normally.
C5_NoSuchCommandFallsBack ==
    (RunMade /\ Unresolved("NoSuchCommandError"))
        => /\ unhandled = <<[cmd |-> runs[1].command, args |-> runs[1].args]>>
           /\ invoked = <<>>
           /\ runResult = Return(NoneVal)
           /\ op.name = "run" => result = Return(NoneVal)

\* a failure inside a delegated sub-handler, with arguments: run("admin.z", a1, a2)
C5_Witness ==
    /\ op.name = "run"
    /\ op.self = Handler("root")
    /\ NamesOf(op.path) = <<n_admin, n_absent>>
    /\ Len(op.args) = MaxArgs
    /\ unhandled = <<[cmd |-> op.path, args |-> op.args]>>
    /\ result = Return(NoneVal)

\* C6: a run of a protected path, and a run whose command body raised, both
\* end in CommandError carrying the command; ProtectedCommand never leaves
\* run, and the fallback handler is not called.
C6_FailuresAreWrapped ==
    RunDone
        => /\ Unresolved("ProtectedCommandError")
                => runResult = Raise("CommandError", runs[1].command) /\ unhandled = <<>>
           /\ (finished = 1 /\ runResult.kind = "raise")
                => runResult = Raise("CommandError", runs[1].command) /\ unhandled = <<>>
           /\ runResult.exc # "ProtectedCommandError"

\* C7: a run of a path that resolves to an unprotected callable calls it once,
\* with the client first and the arguments after it in their order, does not
\* call the fallback handler, and returns only after the body has ended.
C7_RunInvokesOnce ==
    (RunMade /\ Resolution.kind = "return" /\ Callable(Resolution.val))
        => /\ Len(invoked) = 1
           /\ invoked[1].f = Resolution.val
           /\ invoked[1].args[1] = TheClient
           /\ Tail(invoked[1].args) = runs[1].args
           /\ unhandled = <<>>
           /\ ~RunDone => pc = "body" /\ invoked[1].ran /\ finished = 0
           /\ RunDone => finished = (IF invoked[1].ran THEN 1 ELSE 0)

\* run("admin.kick", a1, a2) has returned after kick's body completed
C7_Witness ==
    /\ op.name = "run" /\ pc = "done"
    /\ op.self = Handler("root")
    /\ NamesOf(op.path) = <<n_admin, n_kick>>
    /\ invoked = <<Invocation(Method("admin.kick"), <<Object("client")>> \o op.args, TRUE)>>
    /\ Len(op.args) = MaxArgs
    /\ finished = 1
    /\ result = Return(NoneVal)

\* C8: a PRIVMSG whose destination is not the bot's nick and whose text does
\* not start with the bot's nick ends tryBotCommand with False: no run call, no
\* command body, no fallback handler, nothing sent.
C8_UnaddressedIsIgnored ==
    (op.name = "tryBotCommand" /\ op.dest # Nick /\ ~StartsWith(op.msg, Nick))
        => /\ pc = "done"
           /\ result = Return(FalseVal)
           /\ runs = <<>> /\ invoked = <<>> /\ unhandled = <<>> /\ sent = <<>>

\* a channel message addressed to someone else that names an existing command
C8_Witness ==
    /\ op.name = "tryBotCommand" /\ pc = "done"
    /\ op.dest = d_chan
    /\ op.msg = <<"y", ":", Space>> \o n_kick
    /\ result = Return(FalseVal)

\* the words of a text: the first, and what follows the first blank
FirstWord(text) == SplitOnce(Strip(text), Space)[1]
Remainder(text) == Tail(SplitOnce(Strip(text), Space))
SenderNick == SubSeq(op.prefix, 1, IF Find(op.prefix, "!") = 0 THEN Len(op.prefix)
                                   ELSE Find(op.prefix, "!") - 1)
RouterLines == SelectSeq(sent, LAMBDA l : l.by = "router")

\* C9: a PRIVMSG to the bot's nick is answered to the sender's nick: the
\* command is the first word of the whole trimmed text, the nick not stripped
\* from it, and the destination handed to the command and that of an error
\* reply are the sender's nick; a nick-prefixed channel message keeps its
\* destination.
C9_DirectMessageRetargets ==
    (op.name = "tryBotCommand" /\ (op.dest = Nick \/ StartsWith(op.msg, Nick)))
        => /\ RunMade
           /\ op.dest = Nick =>
                /\ runs[1].command = StrPath(FirstWord(op.msg))
                /\ runs[1].args = <<Text(op.prefix), Text(SenderNick)>>
                        \o [i \in 1..Len(Remainder(op.msg)) |-> Text(Remainder(op.msg)[i])]
                /\ \A i \in 1..Len(RouterLines) : RouterLines[i].dest = SenderNick
           /\ op.dest # Nick =>
                /\ runs[1].args[2] = Text(op.dest)
                /\ \A i \in 1..Len(RouterLines) : RouterLines[i].dest = op.dest

\* a direct message whose text starts with the bot's nick, answered with an
\* error line to the sender
C9_Witness ==
    /\ op.name = "tryBotCommand" /\ pc = "done"
    /\ op.dest = Nick /\ op.prefix = p_user
    /\ op.msg = Nick \o <<":", Space>> \o n_kick
    /\ runs[1].command = StrPath(Nick \o <<":">>)
    /\ runs[1].args[2] = Text(<<"a", "l">>)
    /\ Len(RouterLines) = 0
    /\ unhandled # <<>>

\* where the router answers: the sender for a direct message
ReplyDest == IF op.dest = Nick THEN SenderNick ELSE op.dest

\* C10: a PRIVMSG recognized as a bot command ends tryBotCommand with True and
\* no exception, whether the command succeeded, did not exist, was protected
\* or raised; an error that run raised is sent once, as one line to the
\* destination, and when run raised nothing the router sends nothing.
C10_RecognizedReturnsTrue ==
    (op.name = "tryBotCommand" /\ RunMade)
        => /\ pc = "done" => RunDone /\ result = Return(TrueVal)
           /\ pc # "done" => result = Pending
           /\ (RunDone /\ runResult.kind = "raise")
                => RouterLines = <<Line("router", ReplyDest, runResult.exc, runResult.cmd, {})>>
           /\ (RunDone /\ runResult.kind = "return") => RouterLines = <<>>

\* a protected command asked for in a channel: "bot: ban" is answered with one
\* error line to the channel
C10_Witness ==
    /\ op.name = "tryBotCommand" /\ pc = "done"
    /\ op.dest = d_chan
    /\ op.msg = Nick \o <<":", Space>> \o n_ban
    /\ result = Return(TrueVal)
    /\ runResult.kind = "raise"
    /\ Len(RouterLines) = 1
    /\ RouterLines[1].what = "ProtectedCommandError"
    /\ RouterLines[1].dest = d_chan

\* what the named command itself did: its side effects and the lines it sent
CommandEffects == effects + Len(SelectSeq(sent, LAMBDA l : l.by = "help"))
Recognized == op.name = "tryBotCommand" /\ RunMade /\ pc = "done"

\* C11 as claimed: a recognized bot command ends either with side effects of
\* the command and no error line, or with one error line and no side effects;
\* never with both and never with neither.
C11_ExactlyOneOutcome ==
    Recognized =>
        \/ CommandEffects > 0 /\ RouterLines = <<>>
        \/ Len(RouterLines) = 1 /\ CommandEffects = 0

\* C11 amended: a recognized bot command sends at most one error line, and
\* sends it exactly when run raised; a command whose body never started makes
\* no side effects; a command that does not resolve goes to the fallback
\* handler and produces neither side effects nor an error line.
C11_OutcomeFollowsRun ==
    Recognized =>
        /\ Len(RouterLines) <= 1
        /\ Len(RouterLines) = 1 <=> runResult.kind = "raise"
        /\ (invoked = <<>> \/ ~invoked[1].ran) => CommandEffects = 0
        /\ Unresolved("NoSuchCommandError")
                => CommandEffects = 0 /\ RouterLines = <<>> /\ Len(unhandled) = 1

\* "bot: kick" in a channel: kick made its side effect and then raised, so the
\* command produced both a side effect and an error line
C11_Witness ==
    /\ Recognized
    /\ op.dest = d_chan
    /\ op.msg = Nick \o <<":", Space>> \o n_kick
    /\ effects = 1
    /\ RouterLines = <<Line("router", d_chan, "CommandError", StrPath(n_kick), {})>>

\* the names of a node's members that are commands or sub-handlers, do not
\* start with "_" and are not flagged
ListableNames(ms, node) ==
    {m \in DOMAIN ms[node.id] :
        /\ IsCommand(ms[node.id][m])
        /\ ~UnderscoreAt(<<m>>, 1)
        /\ ~HasAttr(ms, ms[node.id][m], PROTECTED)}

\* C12: with nick "bot", the channel message "bot: help" is routed as command
\* help with no remainder, help is called with its optional argument absent,
\* and the one reply goes to the channel and lists the visible top-level
\* command names.
C12_BotHelpListsCommands ==
    (op.name = "tryBotCommand" /\ pc = "done" /\ op.dest = d_chan
     /\ op.msg = Nick \o <<":", Space>> \o n_help)
        => /\ runs = <<RunCall(Handler("root"), StrPath(n_help),
                               <<Text(op.prefix), Text(d_chan)>>)>>
           /\ Len(invoked) = 1 /\ invoked[1].f = Method("root.help")
           /\ sent = <<Line("help", d_chan, "commands", ListPath(<<>>),
                            ListableNames(members, Handler("root")))>>

ListDone == pc = "done" /\ op.name = "getVisibleCommands"
\* the node that a getVisibleCommands call is about: the receiver by default
ListedNode == IF op.args = <<>> THEN op.self ELSE op.args[1]

\* C13: getVisibleCommands, with an explicit node or with none (the receiver
\* then), returns without failing exactly the names of the node's members that
\* are sub-handlers or commands, do not start with "_" and are not flagged.
C13_ListsExactlyVisible ==
    ListDone => /\ result = Return(ListVal)
                /\ listing = ListableNames(members, ListedNode)

\* C14: when ping has completed for a PING with server token T, one PONG
\* carrying T has been emitted through the transport's send, none is left
\* created and pending, and nothing else was sent.
C14_PingEmitsPong ==
    (op.name = "ping" /\ pc = "done")
        => /\ sent = <<PongLine(op.args[1].text)>>
           /\ created = <<>>

\* what a caller can tell of how get ended: the value, or the kind of error
Outcome(r) == [kind |-> r.kind, val |-> r.val, exc |-> r.exc]

\* C15: for segments s1..sn, get ends the same way (same value, or same kind
\* of error) for the text "s1.s2...sn", for its bytes form, for the list of
\* the text segments and for a list in which any of the segments are bytes.
C15_PathFormsAgree ==
    GetDone =>
        LET names == NamesOf(op.path)
        IN Len(names) >= 1
            => Outcome(result) = Outcome(Get(members, op.self, StrPath(Join(names, Dot))))

\* root.get([b"admin", "ops", b"kick"]) returns what "admin.ops.kick" does
C15_Witness ==
    /\ GetDone
    /\ op.self = Handler("root")
    /\ op.path = ListPath(<<Seg(TRUE, n_admin), Seg(FALSE, n_ops), Seg(TRUE, n_kick)>>)
    /\ result = Return(Method("ops.kick"))

\* the invoked bodies that were started
Started == {i \in 1..Len(invoked) : invoked[i].ran}

\* C16: with each privmsg awaited before the next is delivered, the handling
\* of a message begins only when no command is in progress, and privmsg gives
\* control back only when the body it dispatched has completed or failed and
\* the error reply, if any, has been sent; it leaves no work behind.
C16_PrivmsgReturnsAfterBody ==
    [][ /\ (op' # op /\ op'.name = "privmsg")
            => pc = "idle" /\ runs = <<>> /\ invoked = <<>>
        /\ (op.name = "privmsg" /\ pc' = "idle")
            => /\ pc = "done"
               /\ RunMade => RunDone
               /\ finished = Cardinality(Started)
               /\ runResult.kind = "raise" => Len(RouterLines) = 1
               /\ created = <<>> ]_vars

\* privmsg("bot: admin.kick") has returned after kick's body failed and the
\* error line was sent
C16_Witness ==
    /\ op.name = "privmsg" /\ pc = "done"
    /\ op.dest = d_chan
    /\ op.msg = Nick \o <<":", Space>> \o n_admin \o <<Dot>> \o n_kick
    /\ Len(invoked) = 1
    /\ invoked[1].f = Method("admin.kick")
    /\ finished = 1
    /\ runResult.kind = "raise"
    /\ Len(RouterLines) = 1
    /\ result = Return(NoneVal)

\* C17: what get returns is a command callable or a handler node, never a
\* data attribute of a node, so that run never has such an attribute to call.
C17_GetReturnsCommandsOnly ==
    /\ (GetDone /\ result.kind = "return") => IsCommand(result.val)
    /\ (RunMade /\ Resolution.kind = "return") => IsCommand(Resolution.val)

\* C18: no get, run, tryBotCommand or other dispatcher step changes the
\* members of a node or their protection flags, and a pre-split list that the
\* caller passed to get or run holds, after the call, all its segments in
\* their order.
C18_DispatchIsReadOnly ==
    [][ /\ members' = members
        /\ (op'.name \in {"get", "run"} /\ op'.path.form = "list")
            => passed' = op'.path.parts ]_vars

\* run(["admin", "ops", "kick"]) popped its segments, delegated twice and ran
\* kick; the caller's list still holds the three segments
C18_Witness ==
    /\ op.name = "run" /\ pc = "done"
    /\ op.self = Handler("root")
    /\ op.path = ListPath(<<Seg(FALSE, n_admin), Seg(FALSE, n_ops), Seg(FALSE, n_kick)>>)
    /\ finished = 1
    /\ passed = <<Seg(FALSE, n_admin), Seg(FALSE, n_ops), Seg(FALSE, n_kick)>>
    /\ members = InitMembers

\* C19: get of a pre-split path with no segment returns the receiver; and get
\* of any path, text, bytes or list of zero or more segments, returns a value
\* or fails with NoSuchCommand or ProtectedCommand, in no other way.
C19_EmptyPathReturnsReceiver ==
    GetDone =>
        /\ op.path = ListPath(<<>>) => result = Return(op.self)
        /\ result.kind = "raise"
                => result.exc \in {"NoSuchCommandError", "ProtectedCommandError"}

\* C20: every name that getVisibleCommands(N) returns resolves: N.get(m)
\* returns the member named m; and no name for which N.get(m) fails with
\* ProtectedCommand is in the list.
C20_ListedNamesResolve ==
    (ListDone /\ result.kind = "return") =>
        /\ \A m \in listing :
                Get(members, ListedNode, StrPath(m)) = Return(members[ListedNode.id][m])
        /\ \A m \in DOMAIN members[ListedNode.id] \cup Segs :
                LET r == Get(members, ListedNode, StrPath(m))
                IN (r.kind = "raise" /\ r.exc = "ProtectedCommandError") => m \notin listing

\* getVisibleCommands(admin) lists kick and ops, not the flagged ban and get
C20_Witness ==
    /\ ListDone
    /\ op.args = <<Handler("admin")>>
    /\ listing = {n_kick, n_ops}
    /\ HasAttr(members, GetAttr(members, Handler("admin"), n_ban), PROTECTED)
    /\ Get(members, Handler("admin"), StrPath(n_ops)) = Return(Handler("ops"))

====
